---- MODULE Spec2Model ----
(***************************************************************************)
(* LMIPy: the Collection builder (search, filter, order, truncate,         *)
(* iterate) of LMIPy/lmipy.py and the Dataset record (construction and     *)
(* update) of LMIPy/dataset.py.                                            *)
(*                                                                         *)
(* Python strings are sequences of one-character strings, so that lower(), *)
(* strip(), split(' ') and the `in` substring test are computed.  A JSON   *)
(* value is a tagged record [t, s, l]: None, a string (s) or a list (l).   *)
(* An attribute mapping is a function from keys to such values.            *)
(***************************************************************************)
EXTENDS Integers, Sequences, FiniteSets, TLC

\* Bounds of the model.
MaxPage == 2
MaxLimit == 2

(***************************************************************************)
(* Values                                                                  *)
(***************************************************************************)
NoneV == [t |-> "none", s |-> <<>>, l |-> <<>>]
Str(x) == [t |-> "str", s |-> x, l |-> <<>>]
List(x) == [t |-> "list", s |-> <<>>, l |-> x]

\* Python truthiness of a value: None, '' and [] are falsy.
Truthy(v) == (v.t = "str" /\ Len(v.s) > 0) \/ (v.t = "list" /\ Len(v.l) > 0)

\* dict.get(key): the value, or None when the key is absent.
Get(attributes, key) == IF key \in DOMAIN attributes THEN attributes[key] ELSE NoneV

\* dict.pop(key)
Pop(attributes, key) == [k \in (DOMAIN attributes) \ {key} |-> attributes[k]]

(***************************************************************************)
(* Strings                                                                 *)
(***************************************************************************)
UpperCase == <<"A", "B", "C", "D", "E", "F", "G", "H", "I", "J", "K", "L", "M",
               "N", "O", "P", "Q", "R", "S", "T", "U", "V", "W", "X", "Y", "Z">>
LowerCase == <<"a", "b", "c", "d", "e", "f", "g", "h", "i", "j", "k", "l", "m",
               "n", "o", "p", "q", "r", "s", "t", "u", "v", "w", "x", "y", "z">>

IndexIn(seq, c) == IF \E i \in 1..Len(seq) : seq[i] = c
                   THEN CHOOSE i \in 1..Len(seq) : seq[i] = c
                   ELSE 0

\* The code point of a character (space, A-Z, a-z).
Ord(c) == IF IndexIn(UpperCase, c) > 0 THEN 64 + IndexIn(UpperCase, c)
          ELSE IF IndexIn(LowerCase, c) > 0 THEN 96 + IndexIn(LowerCase, c)
          ELSE 32

LowerChar(c) == IF IndexIn(UpperCase, c) > 0 THEN LowerCase[IndexIn(UpperCase, c)] ELSE c

\* str.lower()
Lower(str) == [i \in 1..Len(str) |-> LowerChar(str[i])]

\* str.strip(): leading and trailing whitespace removed.
RECURSIVE LStrip(_)
LStrip(str) == IF Len(str) > 0 /\ str[1] = " " THEN LStrip(Tail(str)) ELSE str

RECURSIVE RStrip(_)
RStrip(str) == IF Len(str) > 0 /\ str[Len(str)] = " "
               THEN RStrip(SubSeq(str, 1, Len(str) - 1))
               ELSE str

Strip(str) == RStrip(LStrip(str))

\* str.split(' '): the pieces between single spaces, empty pieces kept; the
\* split of '' is [''].
RECURSIVE Split(_)
Split(str) == IF IndexIn(str, " ") = 0
              THEN <<str>>
              ELSE <<SubSeq(str, 1, IndexIn(str, " ") - 1)>>
                   \o Split(SubSeq(str, IndexIn(str, " ") + 1, Len(str)))

\* sub in str
Contains(sub, str) == \E i \in 0..(Len(str) - Len(sub)) :
                         SubSeq(str, i + 1, i + Len(sub)) = sub

\* any([s in text for s in search])
AnyIn(search, text) == \E i \in 1..Len(search) : Contains(search[i], text)

\* Python's str < str: by code point at the first difference, a proper prefix first.
StrLess(a, b) == \E i \in 1..(Len(b)) :
                    /\ i <= Len(a) + 1
                    /\ \A j \in 1..(i - 1) : a[j] = b[j]
                    /\ (i = Len(a) + 1 \/ Ord(a[i]) < Ord(b[i]))

(***************************************************************************)
(* Resource records: Layer, Metadata, Vocabulary, Dataset, Table           *)
(***************************************************************************)
NoAttributes == [k \in {} |-> NoneV]

\* A local object: every kind has the same fields, the unused ones empty.
\* metadata and vocabulary hold at most one object; <<>> stands for False.
Object(kind, id, attributes, layers, metadata, vocabulary, err) ==
    [kind |-> kind, id |-> id, attributes |-> attributes, layers |-> layers,
     metadata |-> metadata, vocabulary |-> vocabulary, err |-> err]

Failed(err) == Object("None", "", NoAttributes, <<>>, <<>>, <<>>, err)

\* A reply of the server to a by-id GET: the status and data.attributes.
Response(status, attributes) == [status |-> status, attributes |-> attributes]

\* Layer.get_layer: the attributes on status 200, else ValueError.
get_layer(response) == IF response.status = 200 THEN "none" ELSE "ValueError"

\* Layer(id_hash, attributes): with an id the attributes are fetched from the
\* server and the ones passed are ignored; without one, id and attributes are
\* read from the raw record passed.
LayerInit(id_hash, raw, response) ==
    IF id_hash = ""
    THEN IF raw.id # "" \/ DOMAIN raw.attributes # {}
         THEN Object("Layer", raw.id, raw.attributes, <<>>, <<>>, <<>>, "none")
         ELSE Object("Layer", "", NoAttributes, <<>>, <<>>, <<>>, "none")
    ELSE IF get_layer(response) = "none"
         THEN Object("Layer", id_hash, response.attributes, <<>>, <<>>, <<>>, "none")
         ELSE Failed(get_layer(response))

\* Metadata(attributes): the type tag must be 'metadata'.
MetadataInit(raw) ==
    IF raw.type # "metadata"
    THEN Failed("ValueError")
    ELSE Object("Metadata", raw.id, raw.attributes, <<>>, <<>>, <<>>, "none")

\* Vocabulary(attributes): the type tag must be 'vocabulary'; the id is the
\* nested resource.id.
VocabularyInit(raw) ==
    IF raw.type # "vocabulary"
    THEN Failed("ValueError")
    ELSE IF raw.resource = ""
    THEN Failed("AttributeError")
    ELSE Object("Vocabulary", raw.resource, raw.attributes, <<>>, <<>>, <<>>, "none")

\* Dataset.get_dataset: the attributes on status 200, else ValueError.
get_dataset(response) == IF response.status = 200 THEN "none" ELSE "ValueError"

NoResponse == Response(0, NoAttributes)

\* The three extraction steps of Dataset.__init__: a non-empty list is turned
\* into child objects and its key popped; an empty list is left in place.
ExtractLayers(attributes) ==
    IF Len(Get(attributes, "layer").l) > 0
    THEN [layers |-> [i \in 1..Len(attributes["layer"].l) |->
                         LayerInit("", attributes["layer"].l[i], NoResponse)],
          attributes |-> Pop(attributes, "layer")]
    ELSE [layers |-> <<>>, attributes |-> attributes]

ExtractMetadata(attributes) ==
    IF Len(Get(attributes, "metadata").l) > 0
    THEN [metadata |-> <<MetadataInit(attributes["metadata"].l[1])>>,
          attributes |-> Pop(attributes, "metadata")]
    ELSE [metadata |-> <<>>, attributes |-> attributes]

ExtractVocabulary(attributes) ==
    IF Len(Get(attributes, "vocabulary").l) > 0
    THEN [vocabulary |-> <<VocabularyInit(attributes["vocabulary"].l[1])>>,
          attributes |-> Pop(attributes, "vocabulary")]
    ELSE [vocabulary |-> <<>>, attributes |-> attributes]

\* Dataset(id_hash, attributes): attributes absent or empty are fetched by id.
\* len(None) of a missing layer/metadata/vocabulary key is a TypeError.
DatasetInit(kind, id_hash, attributes, response) ==
    LET fetch == DOMAIN attributes = {}
        a0 == IF fetch THEN response.attributes ELSE attributes
        e1 == ExtractLayers(a0)
        e2 == ExtractMetadata(e1.attributes)
        e3 == ExtractVocabulary(e2.attributes)
    IN  IF fetch /\ get_dataset(response) # "none" THEN Failed(get_dataset(response))
        ELSE IF Get(a0, "layer").t # "list" THEN Failed("TypeError")
        ELSE IF Get(e1.attributes, "metadata").t # "list" THEN Failed("TypeError")
        ELSE IF Len(e2.metadata) > 0 /\ e2.metadata[1].err # "none"
             THEN Failed(e2.metadata[1].err)
        ELSE IF Get(e2.attributes, "vocabulary").t # "list" THEN Failed("TypeError")
        ELSE IF Len(e3.vocabulary) > 0 /\ e3.vocabulary[1].err # "none"
             THEN Failed(e3.vocabulary[1].err)
        ELSE Object(kind, id_hash, e3.attributes, e1.layers, e2.metadata,
                    e3.vocabulary, "none")

(***************************************************************************)
(* Collection: filter_results and order_results                            *)
(***************************************************************************)
\* One raw record of a page: {id, type, attributes}.
Raw(id, type, attributes) ==
    [id |-> id, type |-> type, attributes |-> attributes, resource |-> ""]

\* The accumulator of filter_results' loop: its two lists and a raised error.
FilterAcc(filtered_response, collection, err) ==
    [filtered_response |-> filtered_response, collection |-> collection, err |-> err]

\* Mutant of Matches: the token test forgotten, any item with text matches.
MatchesAnyText(item, search) ==
    Len(Get(item.attributes, "name").s) > 0 \/ Truthy(Get(item.attributes, "description"))

\* in_name or in_description of one item: the name is lower-cased, the
\* description and the search tokens are used as they are.
Matches(item, search) ==
    LET name == Lower(Get(item.attributes, "name").s)
        description == Get(item.attributes, "description")
        in_description == Truthy(description) /\ AnyIn(search, description.s)
        in_name == Len(name) > 0 /\ AnyIn(search, name)
    IN  in_name \/ in_description

\* The objects one matching item adds to `collection` (the Table/Dataset
\* if-elif, then the separate Layer if).
Wrap(item, layer_response) ==
    LET provider == Get(item.attributes, "provider")
        first == IF item.type = "dataset" /\ provider \in {Str(<<"c", "s", "v">>),
                                                          Str(<<"j", "s", "o", "n">>)}
                 THEN <<DatasetInit("Table", item.id, item.attributes, NoResponse)>>
                 ELSE IF item.type = "dataset" /\ provider # Str(<<"c", "s", "v">>)
                 THEN <<DatasetInit("Dataset", item.id, item.attributes, NoResponse)>>
                 ELSE <<>>
        second == IF item.type = "layer"
                  THEN <<LayerInit(item.id, item, layer_response[item.id])>>
                  ELSE <<>>
    IN  first \o second

FirstError(objects) ==
    IF \E i \in 1..Len(objects) : objects[i].err # "none"
    THEN objects[CHOOSE i \in 1..Len(objects) :
                    /\ objects[i].err # "none"
                    /\ \A j \in 1..(i - 1) : objects[j].err = "none"].err
    ELSE "none"

FilterStep(acc, item, search, limit, layer_response) ==
    IF acc.err # "none" THEN acc
    ELSE IF Get(item.attributes, "name").t # "str"
    THEN FilterAcc(acc.filtered_response, acc.collection, "AttributeError")
    ELSE IF ~Matches(item, search) THEN acc
    ELSE LET filtered == IF Len(acc.filtered_response) < limit
                         THEN Append(acc.filtered_response, item)
                         ELSE acc.filtered_response
             objects == Wrap(item, layer_response)
         IN  IF FirstError(objects) # "none"
             THEN FilterAcc(filtered, acc.collection, FirstError(objects))
             ELSE FilterAcc(filtered, acc.collection \o objects, "none")

RECURSIVE FilterLoop(_, _, _, _, _, _)
FilterLoop(acc, response_list, i, search, limit, layer_response) ==
    IF i > Len(response_list) THEN acc
    ELSE FilterLoop(FilterStep(acc, response_list[i], search, limit, layer_response),
                    response_list, i + 1, search, limit, layer_response)

\* Collection.filter_results: [collection, err].
filter_results(response_list, search, limit, layer_response) ==
    FilterLoop(FilterAcc(<<>>, <<>>, "none"), response_list, 1, search, limit,
               layer_response)

\* self.order.lower() on the field names the model uses.
LowerKey(key) == CASE key = "Name" -> "name"
                   [] key = "NAME" -> "name"
                   [] OTHER -> key

OrderKey(object, order) == Get(object.attributes, LowerKey(order))

\* Mutant of OrderDict: the first object written under a key is kept.
RECURSIVE OrderDictFirstWins(_, _, _)
OrderDictFirstWins(collection_list, order, n) ==
    IF n = 0 THEN [z \in {} |-> Failed("none")]
    ELSE LET d == OrderDictFirstWins(collection_list, order, n - 1)
             z == OrderKey(collection_list[n], order)
         IN  [k \in (DOMAIN d) \cup {z} |-> IF k \in DOMAIN d THEN d[k]
                                            ELSE collection_list[n]]

\* The dict d of order_results after the first n items: key value -> the
\* object written last under it.
RECURSIVE OrderDict(_, _, _)
OrderDict(collection_list, order, n) ==
    IF n = 0 THEN [z \in {} |-> Failed("none")]
    ELSE LET d == OrderDict(collection_list, order, n - 1)
             z == OrderKey(collection_list[n], order)
         IN  [k \in (DOMAIN d) \cup {z} |-> IF k = z THEN collection_list[n] ELSE d[k]]

\* A list is unhashable and cannot be a dict key.
Hashable(v) == v.t # "list"

\* sorted() compares the keys pairwise: it needs them mutually comparable
\* (here: all strings) as soon as there are two.
Sortable(keys) == Cardinality(keys) < 2 \/ \A k \in keys : k.t = "str"

RECURSIVE SortAsc(_)
SortAsc(keys) ==
    IF keys = {} THEN <<>>
    ELSE LET m == CHOOSE x \in keys : \A y \in keys : ~StrLess(y.s, x.s)
         IN  <<m>> \o SortAsc(keys \ {m})

Reverse(seq) == [i \in 1..Len(seq) |-> seq[Len(seq) + 1 - i]]

\* sorted(d, reverse=self.sort.lower() == 'asc')
Sorted(keys, sort) ==
    IF Lower(sort) = <<"a", "s", "c">> THEN Reverse(SortAsc(keys)) ELSE SortAsc(keys)

\* Mutant of Truncate: the slice left out.
NoTruncate(tmp_sorted, limit) == tmp_sorted

\* if self.limit < len(tmp_sorted): tmp_sorted = tmp_sorted[0:self.limit]
Truncate(tmp_sorted, limit) ==
    IF limit < Len(tmp_sorted) THEN SubSeq(tmp_sorted, 1, limit) ELSE tmp_sorted

\* Collection.order_results: [tmp_sorted, err]; any exception of the try
\* block becomes the '[Order-error]' ValueError.
order_results(collection_list, order, sort, limit) ==
    LET d == OrderDict(collection_list, order, Len(collection_list))
        ok == /\ \A n \in 1..Len(collection_list) :
                    Hashable(OrderKey(collection_list[n], order))
              /\ Sortable(DOMAIN d)
        keys == Sorted(DOMAIN d, sort)
        tmp_sorted == [i \in 1..Len(keys) |-> d[keys[i]]]
    IN  IF ~ok THEN [tmp_sorted |-> <<>>, err |-> "Order-error"]
        ELSE [tmp_sorted |-> Truncate(tmp_sorted, limit), err |-> "none"]

\* Mutant of get_page: the emptiness test made after filtering.
get_page_after_filter(response_list, search, limit, layer_response) ==
    LET filtered == filter_results(response_list, search, limit, layer_response)
    IN  IF filtered.err = "none" /\ Len(filtered.collection) < 1
        THEN FilterAcc(<<>>, <<>>, "No items found")
        ELSE filtered

\* Collection.get_datasets / get_layers: an empty page is the 'No items found'
\* ValueError, otherwise the page is filtered.
get_page(response_list, search, limit, layer_response) ==
    IF Len(response_list) < 1
    THEN FilterAcc(<<>>, <<>>, "No items found")
    ELSE filter_results(response_list, search, limit, layer_response)

\* Collection.get_collection: [response_list, collection, err], the filtered
\* list it passes to order_results and the ordered list it returns.
get_collection(response_list, search, limit, order, sort, layer_response) ==
    LET filtered == get_page(response_list, search, limit, layer_response)
        ordered == order_results(filtered.collection, order, sort, limit)
    IN  IF filtered.err # "none"
        THEN [response_list |-> <<>>, collection |-> <<>>, err |-> filtered.err]
        ELSE [response_list |-> filtered.collection, collection |-> ordered.tmp_sorted,
              err |-> ordered.err]

(***************************************************************************)
(* The catalog the server answers from, and the constructor's arguments    *)
(***************************************************************************)
cartodb == Str(<<"c", "a", "r", "t", "o", "d", "b">>)
csv == Str(<<"c", "s", "v">>)
json == Str(<<"j", "s", "o", "n">>)
gee == Str(<<"g", "e", "e">>)

ChildLayer == [id |-> "c1", type |-> "layer", resource |-> "",
               attributes |-> [name |-> Str(<<"c">>)]]
ChildMetadata == [id |-> "m1", type |-> "metadata", resource |-> "",
                  attributes |-> [name |-> Str(<<"m">>)]]
ChildVocabulary == [id |-> "v1", type |-> "vocabulary", resource |-> "d2",
                    attributes |-> [name |-> Str(<<"v">>)]]

\* Dataset records as /v1/dataset?includes=layer,vocabulary,metadata lists them.
DatasetCatalog ==
    { Raw("d1", "dataset", [name |-> Str(<<"a">>), provider |-> cartodb,
                            layer |-> List(<<ChildLayer>>), metadata |-> List(<<>>),
                            vocabulary |-> List(<<>>)]),
      Raw("d2", "dataset", [name |-> Str(<<"A", "b">>), description |-> Str(<<"b">>),
                            provider |-> csv, layer |-> List(<<>>),
                            metadata |-> List(<<ChildMetadata>>),
                            vocabulary |-> List(<<ChildVocabulary>>)]),
      Raw("d3", "dataset", [name |-> Str(<<"b">>), description |-> Str(<<"A">>),
                            provider |-> cartodb, layer |-> List(<<>>),
                            metadata |-> List(<<>>), vocabulary |-> List(<<>>)]),
      Raw("d4", "dataset", [name |-> Str(<<"a">>), description |-> Str(<<"a", "b">>),
                            provider |-> json, layer |-> List(<<>>),
                            metadata |-> List(<<>>), vocabulary |-> List(<<>>)]),
      Raw("d5", "dataset", [name |-> Str(<<>>), description |-> NoneV,
                            provider |-> cartodb, layer |-> List(<<>>),
                            metadata |-> List(<<>>), vocabulary |-> List(<<>>)]) }

\* Layer records as /v1/layer?includes=vocabulary,metadata lists them.
LayerCatalog ==
    { Raw("l1", "layer", [name |-> Str(<<"A">>), description |-> NoneV,
                          provider |-> gee]),
      Raw("l2", "layer", [name |-> Str(<<"a", "b">>), description |-> Str(<<>>),
                          provider |-> gee]),
      Raw("l3", "layer", [name |-> Str(<<"A">>), description |-> Str(<<"a">>),
                          provider |-> cartodb]) }

\* The pages a list request can return: up to MaxPage distinct records.
Pages(catalog) ==
    { p \in UNION { [1..n -> catalog] : n \in 0..MaxPage } :
        \A i, j \in 1..Len(p) : p[i] = p[j] => i = j }

Ids(response_list) == { response_list[i].id : i \in 1..Len(response_list) }

ById(response_list, id) ==
    response_list[CHOOSE i \in 1..Len(response_list) : response_list[i].id = id]

SearchStrings ==
    { <<>>, <<" ">>, <<"a">>, <<" ", "A", " ">>, <<"b">>, <<"a", "b">>,
      <<"A", " ", " ", "b">> }

OrderFields == {"name", "Name", "description", "layer", "rank"}

SortRules == { <<"a", "s", "c">>, <<"d", "e", "s", "c">>, <<"A", "S", "C">> }

ObjectTypes == { <<"dataset", "layer">>, <<"dataset">> }

InSeq(x, seq) == \E i \in 1..Len(seq) : seq[i] = x

Statuses == {200, 404}

(***************************************************************************)
(* State                                                                   *)
(***************************************************************************)
VARIABLES
    arg_search,      \* Collection(search=...): the search string as passed
    limit,           \* self.limit
    order,           \* self.order
    sort,            \* self.sort
    object_type,     \* self.object_type
    page,            \* the page the server returns to the list request
    layer_status,    \* status the server gives the by-id GETs of layers
    pc,              \* "new", "built" or "failed"
    search,          \* self.search: the tokens
    response_list,   \* get_collection's response_list: the filter step's output
    collection,      \* self.collection
    error,           \* the exception the constructor raised, or "none"
    iter_position,   \* self.iter_position
    result,          \* what the last call on the Collection returned or raised
    returned         \* the items next() returned since the last StopIteration

cvars == <<arg_search, limit, order, sort, object_type, page, layer_status,
           pc, search, response_list, collection, error, iter_position, result,
           returned>>

\* The state of a Dataset.
VARIABLES
    d_pc,            \* "new", "ready" or "failed"
    d_id,            \* self.id
    d_attributes,    \* self.attributes
    d_layers,        \* self.layers
    d_metadata,      \* self.metadata (<<>> for False)
    d_vocabulary,    \* self.vocabulary (<<>> for False)
    d_result,        \* what the last call on the Dataset returned or raised
    server,          \* the attributes the server holds for the dataset
    requests,        \* the HTTP requests the last call issued, in order
    call,            \* the last call on the Dataset: its arguments
    prompts          \* the input() prompts the last call waited on, in order

dvars == <<d_pc, d_id, d_attributes, d_layers, d_metadata, d_vocabulary, d_result,
           server, requests, call, prompts>>

vars == <<cvars, dvars>>

Result(status, items) == [status |-> status, items |-> items]

\* What get_layer answers for each layer of the page.
LayerResponses ==
    [id \in Ids(page) |->
        Response(layer_status, ById(page, id).attributes)]

CInit ==
    /\ arg_search \in SearchStrings
    /\ limit \in 0..MaxLimit
    /\ order \in OrderFields
    /\ sort \in SortRules
    /\ object_type \in ObjectTypes
    /\ page \in IF InSeq("layer", object_type)
                         THEN Pages(LayerCatalog) ELSE Pages(DatasetCatalog)
    /\ layer_status \in IF InSeq("layer", object_type) THEN Statuses ELSE {200}
    /\ pc = "new"
    /\ search = <<>>
    /\ response_list = <<>>
    /\ collection = <<>>
    /\ error = "none"
    /\ iter_position = 0
    /\ result = Result("none", <<>>)
    /\ returned = <<>>

\* Collection.__init__
Build ==
    /\ pc = "new"
    /\ LET built == get_collection(page, Split(Strip(arg_search)), limit,
                                   order, sort, LayerResponses)
       IN  /\ search' = Split(Strip(arg_search))
           /\ response_list' = built.response_list
           /\ collection' = built.collection
           /\ error' = built.err
           /\ pc' = IF built.err = "none" THEN "built" ELSE "failed"
    /\ iter_position' = 0
    /\ UNCHANGED <<arg_search, limit, order, sort, object_type, page,
                   layer_status, result, returned, dvars>>

\* Collection.__iter__
Iter ==
    /\ pc = "built"
    /\ result' = Result("self", <<>>)
    /\ UNCHANGED <<arg_search, limit, order, sort, object_type, page,
                   layer_status, pc, search, response_list, collection, error,
                   iter_position, returned, dvars>>

\* Mutant of NextItem: the cursor is not reset on exhaustion.
NextItemNoReset ==
    /\ pc = "built"
    /\ IF iter_position >= Len(collection)
       THEN /\ iter_position' = iter_position
            /\ result' = Result("StopIteration", <<>>)
            /\ returned' = <<>>
       ELSE /\ iter_position' = iter_position + 1
            /\ result' = Result("item", <<collection[iter_position + 1]>>)
            /\ returned' = Append(returned, collection[iter_position + 1])
    /\ UNCHANGED <<arg_search, limit, order, sort, object_type, page,
                   layer_status, pc, search, response_list, collection, error,
                   dvars>>

\* Collection.__next__
NextItem ==
    /\ pc = "built"
    /\ IF iter_position >= Len(collection)
       THEN /\ iter_position' = 0
            /\ result' = Result("StopIteration", <<>>)
            /\ returned' = <<>>
       ELSE /\ iter_position' = iter_position + 1
            /\ result' = Result("item", <<collection[iter_position + 1]>>)
            /\ returned' = Append(returned, collection[iter_position + 1])
    /\ UNCHANGED <<arg_search, limit, order, sort, object_type, page,
                   layer_status, pc, search, response_list, collection, error,
                   dvars>>

\* Collection.__getitem__ with an integer key (negative keys count from the end).
GetItem ==
    /\ pc = "built"
    /\ \E key \in (0 - 1)..MaxPage :
          LET n == Len(collection)
              at == IF key < 0 THEN key + n ELSE key
          IN  result' = IF at >= 0 /\ at < n
                        THEN Result("item", <<collection[at + 1]>>)
                        ELSE Result("IndexError", <<>>)
    /\ UNCHANGED <<arg_search, limit, order, sort, object_type, page,
                   layer_status, pc, search, response_list, collection, error,
                   iter_position, returned, dvars>>


(***************************************************************************)
(* Dataset (LMIPy/dataset.py): construction, update and delete             *)
(***************************************************************************)
\* Dataset.update_keys: the fields update may not change.
update_blacklist ==
    {"metadata", "layer", "vocabulary", "updatedAt", "userId", "slug", "clonedHost",
     "errorMessage", "taskId", "dataLastUpdated"}

\* Mutant of update_keys: the blacklist is not applied.
update_keys_all(attributes) == attributes

\* Dataset.update_keys: the attributes outside the blacklist.
update_keys(attributes) ==
    [k \in (DOMAIN attributes) \ update_blacklist |-> attributes[k]]

\* The body of the PATCH: the requested fields that are updatable.
Payload(update_json, attributes) ==
    [key \in (DOMAIN update_json) \cap (DOMAIN update_keys(attributes)) |->
        update_json[key]]

\* The server applying a successful PATCH to its record.
Patched(record, payload) ==
    [k \in (DOMAIN record) \cup (DOMAIN payload) |->
        IF k \in DOMAIN payload THEN payload[k] ELSE record[k]]

\* An HTTP request: the method, the resource ("dataset" or "layer"), the id in
\* the URL and the JSON body.
Request(method, resource, id, body) ==
    [method |-> method, resource |-> resource, id |-> id, body |-> body]

DResult(status, value) == [status |-> status, value |-> value]

\* A call on the Dataset: the operation, its arguments and the status the
\* server gives its PATCH or DELETE (0: the request fails in transport, or
\* the call issues none).
Call(op, API_TOKEN, update_json, force, status) ==
    [op |-> op, API_TOKEN |-> API_TOKEN, update_json |-> update_json,
     force |-> force, status |-> status]

NoCall == Call("none", NoneV, NoAttributes, FALSE, 0)

\* One input() of the last call: the prompt and the answer typed.
Prompt(prompt, answer) == [prompt |-> prompt, answer |-> answer]

ServerRecords == { r.attributes : r \in DatasetCatalog }

IdHashes == {"", "d1"}

UpdateJsons ==
    { NoAttributes,
      [name |-> Str(<<"z">>)],
      [name |-> Str(<<"z">>), slug |-> Str(<<"s">>)],
      [layer |-> List(<<>>), rank |-> Str(<<"r">>)] }

\* API_TOKEN: None (the default), '' or a token.
Tokens == { NoneV, Str(<<>>), Str(<<"t">>) }

\* The statuses the server can give a PATCH or DELETE and a by-id GET: a
\* record it no longer holds is not found.
WriteStatuses(record) ==
    IF DOMAIN record = {} THEN {404, 0} ELSE Statuses \cup {0}

ReadStatuses(record) ==
    IF DOMAIN record = {} THEN {404} ELSE Statuses

\* Mutant of AuthRequired: the token is not checked.
AuthNeverRequired(API_TOKEN) == FALSE

\* `if not API_TOKEN` of update and delete.
AuthRequired(API_TOKEN) == ~Truthy(API_TOKEN)

\* Mutant of PatchSucceeded: every answer of the server counts as success.
PatchAlwaysSucceeded(status) == TRUE

\* `if r.status_code == 200` of update.
PatchSucceeded(status) == status = 200

\* Mutant of UpdatedAttributes: the payload is merged into the local
\* attributes instead of reading the record back.
UpdatedAttributesLocal(attributes, payload, fetched) == Patched(attributes, payload)

\* `self.attributes = self.get_dataset()` of update.
UpdatedAttributes(attributes, payload, fetched) == fetched

DInit ==
    /\ d_pc = "new"
    /\ d_id = ""
    /\ d_attributes = NoAttributes
    /\ d_layers = <<>>
    /\ d_metadata = <<>>
    /\ d_vocabulary = <<>>
    /\ d_result = DResult("none", NoAttributes)
    /\ server \in ServerRecords
    /\ requests = <<>>
    /\ call = NoCall
    /\ prompts = <<>>

\* Dataset.__init__. The server holds the record under the id "d1" only: a
\* fetch without an id is not found.
Construct ==
    /\ d_pc = "new"
    /\ \E id_hash \in IdHashes, attributes \in {NoAttributes} \cup ServerRecords :
       \E status \in IF id_hash = "" THEN {404} ELSE Statuses :
          LET fetch == DOMAIN attributes = {}
              object == DatasetInit("Dataset", id_hash, attributes,
                                    Response(status, server))
          IN  /\ requests' = IF fetch
                             THEN <<Request("GET", "dataset", id_hash, NoAttributes)>>
                             ELSE <<>>
              /\ d_id' = id_hash
              /\ d_attributes' = object.attributes
              /\ d_layers' = object.layers
              /\ d_metadata' = object.metadata
              /\ d_vocabulary' = object.vocabulary
              /\ d_result' = DResult(object.err, NoAttributes)
              /\ d_pc' = IF object.err = "none" THEN "ready" ELSE "failed"
    /\ call' = Call("init", NoneV, NoAttributes, FALSE, 0)
    /\ UNCHANGED <<server, prompts, cvars>>

\* Dataset.update
Update ==
    /\ d_pc = "ready"
    /\ \E update_json \in UpdateJsons, API_TOKEN \in Tokens :
       \E patch \in IF AuthRequired(API_TOKEN) \/ DOMAIN update_json = {}
                     THEN {0} ELSE WriteStatuses(server) :
       \E get \in IF patch = 200 THEN ReadStatuses(server) ELSE {0} :
          LET payload == Payload(update_json, d_attributes)
              PATCH == Request("PATCH", "dataset", d_id, payload)
              GET == Request("GET", "dataset", d_id, NoAttributes)
          IN  /\ call' = Call("update", API_TOKEN, update_json, FALSE, patch)
              /\ IF AuthRequired(API_TOKEN)
                 THEN /\ d_result' = DResult("ValueError", NoAttributes)
                      /\ requests' = <<>>
                      /\ UNCHANGED <<d_attributes, server>>
                 ELSE IF DOMAIN update_json = {}
                 THEN /\ d_result' = DResult("keys", update_keys(d_attributes))
                      /\ requests' = <<>>
                      /\ UNCHANGED <<d_attributes, server>>
                 ELSE IF patch = 0
                 THEN /\ d_result' = DResult("ValueError", NoAttributes)
                      /\ requests' = <<PATCH>>
                      /\ UNCHANGED <<d_attributes, server>>
                 ELSE IF ~PatchSucceeded(patch)
                 THEN /\ d_result' = DResult("None", NoAttributes)
                      /\ requests' = <<PATCH>>
                      /\ UNCHANGED <<d_attributes, server>>
                 ELSE /\ server' = IF patch = 200 THEN Patched(server, payload)
                                   ELSE server
                      /\ requests' = <<PATCH, GET>>
                      /\ IF get_dataset(Response(get, server')) = "none"
                         THEN /\ d_attributes' =
                                    UpdatedAttributes(d_attributes, payload, server')
                              /\ d_result' = DResult("self", NoAttributes)
                         ELSE /\ d_result' = DResult("ValueError", NoAttributes)
                              /\ UNCHANGED d_attributes
    /\ prompts' = <<>>
    /\ UNCHANGED <<d_pc, d_id, d_layers, d_metadata, d_vocabulary, cvars>>

\* What a call did: its return value or exception, the requests it issued and
\* the prompts it waited on.
Outcome(status, issued, asked) ==
    [status |-> status, requests |-> issued, prompts |-> asked]

\* The answers typed at the cascade prompt and at the y/n prompt.
CascadeAnswers == { <<"d">>, <<"D">>, <<"a">>, <<"x">> }

ConfirmAnswers == { <<"y">>, <<"Y">>, <<"n">>, <<"x">> }

\* What is typed at a prompt: an answer when the call reaches the prompt,
\* nothing when it does not.
Typed(reached, answers) == IF reached THEN answers ELSE { <<>> }

\* Layer.delete(API_TOKEN, force=True): with force no confirmation is asked;
\* one DELETE for the layer, a transport failure raises.
LayerDelete(layer, API_TOKEN, force, status) ==
    Outcome(IF status = 0 THEN "ValueError" ELSE "none",
            <<Request("DELETE", "layer", layer.id, NoAttributes)>>, <<>>)

\* `for l in self.layers: l.delete(API_TOKEN, force=True)`: the first
\* exception ends the loop and the call.
RECURSIVE DeleteLayers(_, _, _)
DeleteLayers(layers, API_TOKEN, status) ==
    IF Len(layers) = 0 THEN Outcome("none", <<>>, <<>>)
    ELSE LET first == LayerDelete(Head(layers), API_TOKEN, TRUE, status)
             rest == DeleteLayers(Tail(layers), API_TOKEN, status)
         IN  IF first.status # "none" THEN first
             ELSE Outcome(rest.status, first.requests \o rest.requests, <<>>)

\* Dataset.confirm_delete: only 'y' or 'Y' confirms.
confirm_delete(answer) == Lower(answer) = <<"y">>

\* Dataset.delete. cascade and confirm are the answers typed if the prompts
\* are reached, layers_status and status what the server gives the DELETEs.
delete(id, layers, attributes, API_TOKEN, force, cascade, confirm, layers_status, status) ==
    LET layer_count == Len(layers)
        asked == IF layer_count > 0 THEN <<Prompt("cascade", cascade)>> ELSE <<>>
        cascaded == IF layer_count > 0
                    THEN DeleteLayers(layers, API_TOKEN, layers_status)
                    ELSE Outcome("none", <<>>, <<>>)
        confirmed == IF force THEN asked
                     ELSE Append(asked, Prompt("confirm", confirm))
        conf == IF force THEN TRUE ELSE confirm_delete(confirm)
        issued == Append(cascaded.requests,
                         Request("DELETE", "dataset", id, NoAttributes))
    IN  IF AuthRequired(API_TOKEN) THEN Outcome("ValueError", <<>>, <<>>)
        ELSE IF layer_count > 0 /\ Lower(cascade) # <<"d">>
        THEN Outcome("False", <<>>, asked)
        ELSE IF cascaded.status # "none"
        THEN Outcome(cascaded.status, cascaded.requests, asked)
        ELSE IF ~force /\ "name" \notin DOMAIN attributes
        THEN Outcome("KeyError", cascaded.requests, asked)
        ELSE IF ~conf THEN Outcome("self", cascaded.requests, confirmed)
        ELSE IF status = 0 THEN Outcome("ValueError", issued, confirmed)
        ELSE IF status = 200 THEN Outcome("None", issued, confirmed)
        ELSE Outcome("self", issued, confirmed)

\* The dataset's own DELETE is among the requests.
DatasetDeleteIssued(issued) ==
    \E i \in 1..Len(issued) :
        issued[i].method = "DELETE" /\ issued[i].resource = "dataset"

\* Dataset.delete
Delete ==
    /\ d_pc = "ready"
    /\ \E API_TOKEN \in Tokens, force \in BOOLEAN :
       \E cascade \in Typed(~AuthRequired(API_TOKEN) /\ Len(d_layers) > 0,
                            CascadeAnswers) :
       \E confirm \in Typed(~AuthRequired(API_TOKEN) /\ ~force
                               /\ Lower(cascade) \in { <<>>, <<"d">> },
                            ConfirmAnswers),
          layers_status \in IF Lower(cascade) = <<"d">> THEN Statuses \cup {0}
                            ELSE {0} :
       \E status \in IF /\ ~AuthRequired(API_TOKEN)
                         /\ Lower(cascade) \in { <<>>, <<"d">> }
                         /\ (layers_status # 0 \/ cascade = <<>>)
                         /\ (force \/ confirm_delete(confirm))
                      THEN WriteStatuses(server) ELSE {0} :
          LET outcome == delete(d_id, d_layers, d_attributes, API_TOKEN, force,
                                cascade, confirm, layers_status, status)
          IN  /\ call' = Call("delete", API_TOKEN, NoAttributes, force, status)
              /\ d_result' = DResult(outcome.status, NoAttributes)
              /\ requests' = outcome.requests
              /\ prompts' = outcome.prompts
              /\ server' = IF DatasetDeleteIssued(outcome.requests) /\ status = 200
                           THEN NoAttributes ELSE server
    /\ UNCHANGED <<d_pc, d_id, d_attributes, d_layers, d_metadata, d_vocabulary,
                   cvars>>

(***************************************************************************)
(* Specifications                                                          *)
(***************************************************************************)
\* The Dataset variables while only a Collection is in use, and conversely.
DIdle ==
    /\ d_pc = "idle"
    /\ d_id = ""
    /\ d_attributes = NoAttributes
    /\ d_layers = <<>>
    /\ d_metadata = <<>>
    /\ d_vocabulary = <<>>
    /\ d_result = DResult("none", NoAttributes)
    /\ server = NoAttributes
    /\ requests = <<>>
    /\ call = NoCall
    /\ prompts = <<>>

CIdle ==
    /\ arg_search = <<>>
    /\ limit = 0
    /\ order = "name"
    /\ sort = <<>>
    /\ object_type = <<>>
    /\ page = <<>>
    /\ layer_status = 200
    /\ pc = "idle"
    /\ search = <<>>
    /\ response_list = <<>>
    /\ collection = <<>>
    /\ error = "none"
    /\ iter_position = 0
    /\ result = Result("none", <<>>)
    /\ returned = <<>>

\* A Collection: built once, then iterated and indexed.
Init == CInit /\ DIdle
Next == Build \/ Iter \/ NextItem \/ GetItem
Spec == Init /\ [][Next]_vars

\* A Dataset: constructed once, then updated and deleted.
InitDataset == DInit /\ CIdle
NextDataset == Construct \/ Update \/ Delete
SpecDataset == InitDataset /\ [][NextDataset]_vars

(***************************************************************************)
(* Properties of the Collection                                            *)
(***************************************************************************)
\* The build has run and its filter step returned (no empty page, no
\* exception while wrapping an item): response_list is the filter's output.
FilterReturned == pc # "new" /\ error \in {"none", "Order-error"}

\* Some token is a substring of the text, letter case ignored on both sides.
AnyInIgnoringCase(tokens, text) ==
    \E i \in 1..Len(tokens) : Contains(Lower(tokens[i]), Lower(text))

\* The match the specification describes: a token in the name, or in the
\* description when there is one, case-insensitively.
MatchesIgnoringCase(item, tokens) ==
    \/ AnyInIgnoringCase(tokens, Get(item.attributes, "name").s)
    \/ /\ Get(item.attributes, "description").t = "str"
       /\ AnyInIgnoringCase(tokens, Get(item.attributes, "description").s)

HasId(objects, id) == \E j \in 1..Len(objects) : objects[j].id = id

\* C1: the item sequence of a successfully built Collection is never longer
\* than limit.
C1_LengthAtMostLimit == pc = "built" => Len(collection) <= limit

\* C1 witness: more distinct matches than limit > 0, and the Collection
\* holds exactly limit of them.
C1_Witness ==
    /\ pc = "built"
    /\ limit > 0
    /\ Cardinality({ OrderKey(response_list[i], order) :
                        i \in 1..Len(response_list) }) > limit
    /\ Len(collection) = limit

\* No token of the search is the empty string.
NoEmptyToken == \A t \in 1..Len(search) : Len(search[t]) > 0

\* C2: every dataset or layer record of the page that matches a token in its
\* name or description, ignoring case, is in the output of the filter step.
\* Stated for searches without empty tokens, so that a violation shows the
\* handling of letter case and not that of the empty string.
C2_FilterComplete ==
    (FilterReturned /\ NoEmptyToken) =>
        \A i \in 1..Len(page) :
            (/\ page[i].type \in {"dataset", "layer"}
             /\ MatchesIgnoringCase(page[i], search))
            => HasId(response_list, page[i].id)

\* C3: every item of a built Collection is a record of the page that matches
\* a token in its name or description, ignoring case.
C3_FilterSound ==
    pc = "built" =>
        \A j \in 1..Len(collection) :
            \E i \in 1..Len(page) :
                /\ page[i].id = collection[j].id
                /\ MatchesIgnoringCase(page[i], search)

\* C3 witness: a built Collection with an item, from a page that also holds
\* a record no token matches.
C3_Witness ==
    /\ pc = "built"
    /\ Len(collection) > 0
    /\ \E i \in 1..Len(page) :
          /\ ~MatchesIgnoringCase(page[i], search)
          /\ ~HasId(collection, page[i].id)

\* The items, by their order-key strings, never decrease / never increase.
Ascending(objects, field) ==
    \A i, j \in 1..Len(objects) :
        i < j => ~StrLess(OrderKey(objects[j], field).s, OrderKey(objects[i], field).s)

Descending(objects, field) ==
    \A i, j \in 1..Len(objects) :
        i < j => ~StrLess(OrderKey(objects[i], field).s, OrderKey(objects[j], field).s)

\* C4: the items of a built Collection are in ascending order of the order
\* attribute when sort is "asc" and in descending order otherwise.  Stated
\* for searches without empty tokens.
C4_SortDirection ==
    (pc = "built" /\ NoEmptyToken) =>
        IF sort = <<"a", "s", "c">>
        THEN Ascending(collection, order)
        ELSE Descending(collection, order)

\* The order-key values of the filter step's objects, and their positions.
KeyAt(n) == OrderKey(response_list[n], order)

SameKey(i, j) == i < j /\ KeyAt(i) = KeyAt(j)

\* The object written last under the key of the n-th object.
LastWithKey(n) ==
    response_list[CHOOSE m \in 1..Len(response_list) :
                           /\ KeyAt(m) = KeyAt(n)
                           /\ \A q \in 1..Len(response_list) :
                                 KeyAt(q) = KeyAt(n) => q <= m]

\* The ids of the items of the Collection whose order key is that of the
\* n-th object of the filter step.
PresentWithKey(n) ==
    { collection[q].id : q \in { q \in 1..Len(collection) :
                                   OrderKey(collection[q], order) = KeyAt(n) } }

DistinctKeys(objects) ==
    \A i, j \in 1..Len(objects) :
        OrderKey(objects[i], order) = OrderKey(objects[j], order) => i = j

\* C5 as claimed: when matching records share an order-key value the build
\* succeeds, exactly one of them - the last encountered - is in the output,
\* and no two items of the output have equal keys.
C5_ExactlyLastSurvives ==
    FilterReturned =>
        \A i, j \in 1..Len(response_list) :
            SameKey(i, j) =>
                /\ pc = "built"
                /\ PresentWithKey(i) = {LastWithKey(i).id}
                /\ DistinctKeys(collection)

\* C5 amended: when matching records share an order-key value and the build
\* succeeds, none of them but the last encountered is in the Collection, the
\* last one is in it whenever limit is at least the number of distinct key
\* values (otherwise truncation may drop it), and no two items have equal
\* keys; and when every order-key value is a string the build succeeds.
C5_LastWinsUpToLimit ==
    FilterReturned =>
        /\ (\A n \in 1..Len(response_list) : KeyAt(n).t = "str") => pc = "built"
        /\ pc = "built" =>
              /\ DistinctKeys(collection)
              /\ \A i, j \in 1..Len(response_list) :
                    SameKey(i, j) =>
                        /\ PresentWithKey(i) \subseteq {LastWithKey(i).id}
                        /\ (limit >= Cardinality({ KeyAt(n) :
                                         n \in 1..Len(response_list) })
                            => PresentWithKey(i) = {LastWithKey(i).id})

\* C5 witness: two matching records share a string key and the later one is
\* in the built Collection.
C5_Witness ==
    /\ pc = "built"
    /\ \E i, j \in 1..Len(response_list) :
          /\ SameKey(i, j)
          /\ KeyAt(i).t = "str"
          /\ LastWithKey(i).id = response_list[j].id
          /\ HasId(collection, response_list[j].id)
          /\ ~HasId(collection, response_list[i].id)

\* The records of the page the filter step wrapped into objects.
MatchingRecords ==
    { page[i] : i \in { i \in 1..Len(page) :
                                   HasId(response_list, page[i].id) } }

\* C6: when the order field is absent from the attributes of every matching
\* record, and there is at least one, the build fails with the order error.
\* Stated for searches without empty tokens and a limit above 0.
C6_AbsentOrderFieldFails ==
    (/\ FilterReturned
     /\ NoEmptyToken
     /\ limit > 0
     /\ MatchingRecords # {}
     /\ \A r \in MatchingRecords : LowerKey(order) \notin DOMAIN r.attributes)
    => (pc = "failed" /\ error = "Order-error")

\* C7: the build fails with the empty-catalog error exactly when the page is
\* empty; a non-empty page without a matching record builds an empty
\* Collection without error.
C7_EmptyPageOnly ==
    pc # "new" =>
        /\ error = "No items found" <=> Len(page) = 0
        /\ (/\ Len(page) > 0
            /\ \A i \in 1..Len(page) :
                  ~MatchesIgnoringCase(page[i], search))
           => (pc = "built" /\ collection = <<>> /\ error = "none")

\* C7 witness: a non-empty page, a search with a non-empty token that
\* matches none of its records, and an empty Collection built.
C7_Witness ==
    /\ pc = "built"
    /\ Len(page) > 0
    /\ NoEmptyToken
    /\ \A i \in 1..Len(page) : ~MatchesIgnoringCase(page[i], search)
    /\ collection = <<>>

\* C8: a search string that is empty or only whitespace matches nothing: on
\* a non-empty page the build raises no error and the Collection holds no
\* item.  Stated for a limit above 0 and a server that answers the by-id
\* layer requests.  (The token list of such a search is [''], not [].)
C8_BlankSearchMatchesNothing ==
    (/\ pc # "new"
     /\ Strip(arg_search) = <<>>
     /\ Len(page) > 0
     /\ limit > 0
     /\ layer_status = 200)
    => (pc = "built" /\ collection = <<>>)

\* C9, in every state: the cursor is within 0..n and the items next() has
\* returned in the current pass are items 0..cursor-1 in order.
C9_CursorInRange ==
    pc = "built" =>
        /\ iter_position \in 0..Len(collection)
        /\ returned = SubSeq(collection, 1, iter_position)

\* C9, in every step: the items never change; a next() call below the end
\* returns the item under the cursor and advances it by one; a next() call at
\* the end signals StopIteration after a pass that returned every item, and
\* resets the cursor to 0.
C9_StepOfIteration ==
    pc = "built" =>
        /\ collection' = collection
        /\ NextItem =>
              IF iter_position < Len(collection)
              THEN /\ result' = Result("item", <<collection[iter_position + 1]>>)
                   /\ iter_position' = iter_position + 1
              ELSE /\ result'.status = "StopIteration"
                   /\ returned = collection
                   /\ iter_position' = 0

\* C9: reset on exhaustion.
C9_ResetOnExhaustion == [](C9_CursorInRange) /\ [][C9_StepOfIteration]_vars

\* C9 witness: a Collection of two items or more whose pass has just ended.
C9_Witness ==
    /\ pc = "built"
    /\ Len(collection) >= 2
    /\ result.status = "StopIteration"
    /\ iter_position = 0

(***************************************************************************)
(* Properties of the Dataset                                               *)
(***************************************************************************)
\* C10: once a Dataset is constructed, its attributes never hold a layer,
\* metadata or vocabulary key.
C10_NoNestedKeys ==
    d_pc = "ready" => (DOMAIN d_attributes) \cap {"layer", "metadata", "vocabulary"} = {}

\* The step is a call of update (resp. delete) that has just returned.
UpdateCalled == call'.op = "update" /\ Update

DeleteCalled == call'.op = "delete" /\ Delete

\* C11, in every step: an update called with no token (None) or an empty
\* one, whatever fields it is passed, raises the token-required error, has
\* issued no request (no PATCH, no GET) and leaves the attributes as they were.
C11_StepWithoutToken ==
    (UpdateCalled /\ call'.API_TOKEN \in {NoneV, Str(<<>>)}) =>
        /\ d_result'.status = "ValueError"
        /\ requests' = <<>>
        /\ d_attributes' = d_attributes
        /\ server' = server

\* C11: authentication before any request.
C11_AuthBeforeRequest == [][C11_StepWithoutToken]_vars

\* C11 witness: an update with fields to change and an empty token has failed.
C11_Witness ==
    /\ call.op = "update"
    /\ call.API_TOKEN = Str(<<>>)
    /\ "name" \in DOMAIN call.update_json
    /\ d_result.status = "ValueError"
    /\ requests = <<>>

\* The PATCH requests among those a call issued.
Patches(issued) ==
    { i \in 1..Len(issued) : issued[i].method = "PATCH" }

\* C12, in every step: an update that gets past the token and the empty-
\* mapping checks issues a PATCH whose body holds exactly the requested fields
\* that are attribute keys of the record outside the blacklist, each with the
\* requested value; no PATCH body holds a blacklisted field or a field
\* outside the allowed set; and the call raises only when the PATCH fails in
\* transport or the read-back fails, never because fields were dropped.
C12_StepOfPayload ==
    (UpdateCalled /\ Truthy(call'.API_TOKEN) /\ DOMAIN call'.update_json # {}) =>
        LET requested == call'.update_json
            allowed == (DOMAIN d_attributes) \ update_blacklist
        IN  /\ Patches(requests') = {1}
            /\ \A i \in Patches(requests') :
                  /\ DOMAIN requests'[i].body = (DOMAIN requested) \cap allowed
                  /\ \A k \in DOMAIN requests'[i].body :
                        requests'[i].body[k] = requested[k]
                  /\ (DOMAIN requests'[i].body) \cap update_blacklist = {}
            /\ d_result'.status = "ValueError" =>
                  call'.status = 0 \/ Len(requests') = 2

\* C12: the PATCH body is the requested fields narrowed to the allowed set.
C12_PayloadIsAllowedFields == [][C12_StepOfPayload]_vars

\* C12 witness: an update asking for a blacklisted key the attributes hold
\* and for a key they do not hold was sent with an empty body, without error.
C12_Witness ==
    /\ call.op = "update"
    /\ Truthy(call.API_TOKEN)
    /\ "layer" \in (DOMAIN call.update_json) \cap (DOMAIN d_attributes)
    /\ "rank" \in DOMAIN call.update_json
    /\ Len(requests) = 1
    /\ DOMAIN requests[1].body = {}
    /\ d_result.status = "None"

\* C13, in every step: an update whose PATCH the server answers with a status
\* other than success returns None without raising, has issued that one
\* PATCH and nothing else (no GET, no second PATCH), and leaves the id and
\* the attributes of the record as they were.
C13_StepOfFailedPatch ==
    (UpdateCalled /\ call'.status \notin {0, 200}) =>
        /\ d_result' = DResult("None", NoAttributes)
        /\ Len(requests') = 1
        /\ requests'[1].method = "PATCH"
        /\ requests'[1].id = d_id
        /\ d_id' = d_id
        /\ d_attributes' = d_attributes

\* C13: a failed PATCH gives None and nothing else happens.
C13_FailedPatchReturnsNone == [][C13_StepOfFailedPatch]_vars

\* C13 witness: an update of the name was answered 404.
C13_Witness ==
    /\ call.op = "update"
    /\ call.status = 404
    /\ "name" \in DOMAIN call.update_json
    /\ d_result.status = "None"
    /\ Len(requests) = 1
    /\ "name" \in DOMAIN requests[1].body

\* C14, in every step: an update whose PATCH succeeds has issued exactly two
\* requests, the PATCH and then one by-id GET of the same dataset; and when
\* it returns the record, the record's attributes are the server's record as
\* re-fetched, so every field the PATCH carried reads back with the value
\* requested.
C14_StepOfSuccessfulPatch ==
    (UpdateCalled /\ call'.status = 200) =>
        /\ Len(requests') = 2
        /\ requests'[1].method = "PATCH"
        /\ requests'[1].id = d_id
        /\ requests'[2] = Request("GET", "dataset", d_id, NoAttributes)
        /\ d_result'.status \in {"self", "ValueError"}
        /\ d_result'.status = "self" =>
              /\ d_attributes' = server'
              /\ \A k \in DOMAIN requests'[1].body :
                    /\ k \in DOMAIN d_attributes'
                    /\ d_attributes'[k] = call'.update_json[k]

\* C14: a successful PATCH is followed by one read-back.
C14_ReadBackAfterPatch == [][C14_StepOfSuccessfulPatch]_vars

\* C14 witness: the name was updated to "z" and reads back as "z" on the
\* record returned, which held another name before.
C14_Witness ==
    /\ call.op = "update"
    /\ call.status = 200
    /\ d_result.status = "self"
    /\ Len(requests) = 2
    /\ "name" \in DOMAIN requests[1].body
    /\ call.update_json["name"] = Str(<<"z">>)
    /\ d_attributes["name"] = Str(<<"z">>)

\* The DELETE requests among those a call issued.
Deletes(issued) ==
    { i \in 1..Len(issued) : issued[i].method = "DELETE" }

\* The last call was delete with a token, on a Dataset that owns layers.
DeleteWithLayers ==
    /\ call.op = "delete"
    /\ Truthy(call.API_TOKEN)
    /\ Len(d_layers) > 0

\* C15: a delete with a token and force=False on a Dataset that owns a layer
\* or more, answered at the cascade prompt with anything but the cascade
\* confirmation, has issued no DELETE (for the dataset or a layer) and
\* returns the record itself, which is as it was (delete assigns no field).
C15_DeclinedCascadeReturnsRecord ==
    (/\ DeleteWithLayers
     /\ ~call.force
     /\ Len(prompts) >= 1
     /\ Lower(prompts[1].answer) # <<"d">>) =>
        /\ Deletes(requests) = {}
        /\ d_result.status = "self"

\* C16: a delete with a token and force=True, on a Dataset with or without
\* layers, has waited on no input (neither the cascade prompt nor the y/n
\* prompt) and has issued the DELETE of the dataset.
C16_ForceNeverPrompts ==
    (call.op = "delete" /\ Truthy(call.API_TOKEN) /\ call.force) =>
        /\ prompts = <<>>
        /\ DatasetDeleteIssued(requests)

\* C18: cascade atomicity. A delete that returned without having issued the
\* DELETE of the dataset (the caller aborted or declined at a prompt) has
\* issued no DELETE of a layer either.
C18_NoLayerDeletedAlone ==
    (/\ call.op = "delete"
     /\ d_result.status \in {"False", "self"}
     /\ ~DatasetDeleteIssued(requests)) =>
        Deletes(requests) = {}

(***************************************************************************)
(* Properties of the Collection: restarting an iteration                   *)
(***************************************************************************)
\* C17: an iteration begun on a built Collection starts at position zero.
\* Whatever next() calls came before, also a pass abandoned before its end,
\* once iter() has returned the cursor is 0, so that the next() after it
\* returns item 0. Stated where that next() returns an item at all (the
\* cursor is below the end) and the search has no empty token.
C17_IterStartsAtZero ==
    (/\ pc = "built"
     /\ NoEmptyToken
     /\ result.status = "self"
     /\ iter_position < Len(collection)) =>
        iter_position = 0
====
